---- MODULE Spec2Model ----
(***************************************************************************)
(* Model of server.mjs (first definition, lines 1-411): the in-memory      *)
(* session store, the response normalizer, the two-tier fallback           *)
(* orchestrator generateWithFallback and the /api/chat and /api/upload     *)
(* handlers.  Every action is one synchronous run of the JavaScript code   *)
(* between two suspension points (await).                                  *)
(***************************************************************************)
EXTENDS Integers, Sequences, FiniteSets, TLC

\* ------------------------------------------------------------------------
\* Bounds
\* ------------------------------------------------------------------------

\* number of HTTP requests handled in one behaviour
MaxRequests == 2

\* ------------------------------------------------------------------------
\* JavaScript values.  A value is a record tagged with its runtime type.
\* A string is a sequence of runs [c |-> character, n |-> repetitions]; a
\* literal chunk of a template is a single run whose c is the chunk.
\* ------------------------------------------------------------------------

Undef == [t |-> "undefined"]
Null == [t |-> "null"]
Num(v) == [t |-> "number", v |-> v]
Str(s) == [t |-> "string", s |-> s]
Arr(a) == [t |-> "array", a |-> a]
Obj(f) == [t |-> "object", f |-> f]

Lit(c) == <<[c |-> c, n |-> 1]>>
Rep(c, n) == IF n = 0 THEN <<>> ELSE <<[c |-> c, n |-> n]>>

\* JavaScript truthiness (the values of ToBoolean)
Truthy(v) ==
  CASE v.t \in {"undefined", "null"} -> FALSE
    [] v.t = "number" -> v.v # 0
    [] v.t = "string" -> v.s # <<>>
    [] OTHER -> TRUE

\* property read v[k] on a value that is neither null nor undefined
Get(v, k) == IF v.t = "object" /\ k \in DOMAIN v.f THEN v.f[k] ELSE Undef

\* optional chaining v?.[k]
OptGet(v, k) == IF v.t \in {"undefined", "null"} THEN Undef ELSE Get(v, k)

\* optional chaining v?.[0] on an array
OptFirst(v) == IF v.t = "array" /\ Len(v.a) > 0 THEN v.a[1] ELSE Undef

\* string concatenation, keeping runs maximal
Cat(s, u) ==
  IF s = <<>> THEN u
  ELSE IF u = <<>> THEN s
  ELSE IF s[Len(s)].c = u[1].c
       THEN SubSeq(s, 1, Len(s) - 1)
            \o <<[c |-> u[1].c, n |-> s[Len(s)].n + u[1].n]>>
            \o SubSeq(u, 2, Len(u))
       ELSE s \o u

IsWhite(c) == c \in {" ", "\n"}

RECURSIVE TrimStart(_)
TrimStart(s) ==
  IF s # <<>> /\ IsWhite(s[1].c) THEN TrimStart(Tail(s)) ELSE s

RECURSIVE TrimEnd(_)
TrimEnd(s) ==
  IF s # <<>> /\ IsWhite(s[Len(s)].c)
  THEN TrimEnd(SubSeq(s, 1, Len(s) - 1))
  ELSE s

\* String.prototype.trim
Trim(s) == TrimEnd(TrimStart(s))

\* number of characters of a string
RECURSIVE StrLen(_)
StrLen(s) == IF s = <<>> THEN 0 ELSE s[1].n + StrLen(Tail(s))

\* the first k characters of s
RECURSIVE Take(_, _)
Take(s, k) ==
  IF k <= 0 \/ s = <<>> THEN <<>>
  ELSE IF s[1].n <= k THEN <<s[1]>> \o Take(Tail(s), k - s[1].n)
  ELSE <<[c |-> s[1].c, n |-> k]>>

\* s without its first k characters
RECURSIVE Drop(_, _)
Drop(s, k) ==
  IF k <= 0 \/ s = <<>> THEN s
  ELSE IF s[1].n <= k THEN Drop(Tail(s), k - s[1].n)
  ELSE <<[c |-> s[1].c, n |-> s[1].n - k]>> \o Tail(s)

\* String.prototype.slice(from, to) for 0 <= from
Slice(s, from, to) == Take(Drop(s, from), to - from)

\* faulty variant: slice(k) in place of slice(-k)
SliceLastFromStart(s, k) == Drop(s, k)

\* String.prototype.slice(-k)
SliceLast(s, k) == Drop(s, IF StrLen(s) > k THEN StrLen(s) - k ELSE 0)

\* a number interpolated into a template: one token carrying its value
NumText(label, v) == <<[c |-> label, n |-> 1, v |-> v]>>

\* `${v}` for the values the model uses
ToText(v) ==
  CASE v.t = "string" -> v.s
    [] v.t = "number" -> NumText("number", v.v)
    [] OTHER -> Lit(v.t)

RECURSIVE CatAll(_)
CatAll(ss) == IF ss = <<>> THEN <<>> ELSE Cat(ss[1], CatAll(Tail(ss)))

\* ------------------------------------------------------------------------
\* Program constants
\* ------------------------------------------------------------------------

CODE_MODEL == "gpt-5.1-codex-max"
FALLBACK_MODEL == "gpt-5.1-chat-latest"
BASE_SYSTEM_PROMPT == Lit("BASE_SYSTEM_PROMPT")
NO_CONTENT == Lit("[No content returned from fallback model]")
EMPTY_OUTPUT_MESSAGE == Lit("Empty output from Responses API")

\* ------------------------------------------------------------------------
\* Response normalizer
\* ------------------------------------------------------------------------

\* outcome of a piece of code that can raise: a string, or a TypeError
Ok(s) == [ok |-> TRUE, s |-> s]
Raised == [ok |-> FALSE]

\* the text pushed for one content part c (c.text of null/undefined raises)
PartText(c) ==
  IF c.t \in {"undefined", "null"} THEN Raised
  ELSE IF Get(c, "text").t = "string" THEN Ok(Get(c, "text").s)
  ELSE IF Truthy(Get(c, "output_text"))
          /\ Get(Get(c, "output_text"), "text").t = "string"
       THEN Ok(Get(Get(c, "output_text"), "text").s)
       ELSE Ok(<<>>)

\* the inner loop over item.content
RECURSIVE ContentText(_)
ContentText(parts) ==
  IF parts = <<>> THEN Ok(<<>>)
  ELSE LET h == PartText(parts[1])
           r == ContentText(Tail(parts))
       IN IF ~h.ok \/ ~r.ok THEN Raised ELSE Ok(Cat(h.s, r.s))

\* the convenience field x.output_text.text, "" when it is not a string
ConvenienceText(x) ==
  IF Truthy(Get(x, "output_text"))
     /\ Get(Get(x, "output_text"), "text").t = "string"
  THEN Get(Get(x, "output_text"), "text").s
  ELSE <<>>

\* the body of the outer loop for one item
ItemText(item) ==
  IF ~Truthy(item) THEN Ok(<<>>)
  ELSE LET c == IF Get(item, "content").t = "array"
                THEN ContentText(Get(item, "content").a)
                ELSE Ok(<<>>)
       IN IF ~c.ok THEN Raised ELSE Ok(Cat(c.s, ConvenienceText(item)))

\* faulty variant: chunks.unshift, later items come first
RECURSIVE OutputTextReversed(_)
OutputTextReversed(items) ==
  IF items = <<>> THEN Ok(<<>>)
  ELSE LET h == ItemText(items[1])
           r == OutputTextReversed(Tail(items))
       IN IF ~h.ok \/ ~r.ok THEN Raised ELSE Ok(Cat(r.s, h.s))

\* the outer loop over resp.output
RECURSIVE OutputText(_)
OutputText(items) ==
  IF items = <<>> THEN Ok(<<>>)
  ELSE LET h == ItemText(items[1])
           r == OutputText(Tail(items))
       IN IF ~h.ok \/ ~r.ok THEN Raised ELSE Ok(Cat(h.s, r.s))

\* for (const item of resp.output): an array is walked, a string yields
\* one-character strings that carry no text, anything else is not iterable
IterateOutput(out) ==
  IF out.t = "array" THEN OutputText(out.a)
  ELSE IF out.t = "string" THEN Ok(<<>>)
  ELSE Raised

extractTextFromResponse(resp) ==
  IF ~Truthy(resp) \/ ~Truthy(Get(resp, "output")) THEN Ok(<<>>)
  ELSE LET o == IterateOutput(Get(resp, "output"))
       IN IF ~o.ok THEN Raised
          ELSE Ok(Trim(Cat(o.s, ConvenienceText(resp))))

\* ------------------------------------------------------------------------
\* Backend results the model draws from
\* ------------------------------------------------------------------------

TextPart(s) == Obj([text |-> Str(s)])
Item(parts) == Obj([content |-> Arr(parts)])
Resp(items) == Obj([output |-> Arr(items)])

\* results of openai.responses.create
PrimaryResponses ==
  { Resp(<<Item(<<TextPart(Lit("a"))>>)>>),
    Resp(<<Item(<<TextPart(Lit(" "))>>)>>),
    Resp(<<>>),
    Resp(<<Item(<<Null>>)>>),
    Obj([output_text |-> Obj([text |-> Str(Lit("a"))])]),
    Null }

Message(content) == Obj([message |-> Obj([content |-> content])])

\* results of openai.chat.completions.create: the client resolves with a
\* completion object and rejects with an Error object
Completions ==
  { Obj([choices |-> Arr(<<Message(Str(Lit("b")))>>)]),
    Obj([choices |-> Arr(<<Message(Str(<<>>))>>)]),
    Obj([choices |-> Arr(<<Message(Str(Lit(" ")))>>)]),
    Obj([choices |-> Arr(<<Message(Null)>>)]),
    Obj([choices |-> Arr(<<>>)]),
    Obj([id |-> Str(Lit("c"))]) }

\* messages of the faults a backend call can raise
FaultMessages == {Lit("E1")}

\* an Error object: its message and the place that created it
Error(msg, r, n) == [t |-> "error", message |-> msg, req |-> r, at |-> n]

\* ------------------------------------------------------------------------
\* Inputs the model draws from
\* ------------------------------------------------------------------------

Reqs == 1..MaxRequests

\* values `session-${Date.now()}-${Math.random()...}` can take
GeneratedIds == {Str(Lit("session-1")), Str(Lit("session-2"))}

\* sessionId fields of request bodies
SessionIdInputs == {Undef, Str(<<>>), Str(Lit("session-1"))}

\* message fields of /api/chat request bodies
MessageInputs == {Undef, Num(1), Str(<<>>), Str(Lit("hi"))}

\* /api/upload request bodies
UploadBody(fileName, fileType, fileSize, fileContent, instructions) ==
  [fileName |-> fileName, fileType |-> fileType, fileSize |-> fileSize,
   fileContent |-> fileContent, instructions |-> instructions]

UploadInputs ==
  { UploadBody(Undef, Undef, Undef, Str(Lit("f")), Undef),
    UploadBody(Str(Lit("a.js")), Str(Lit("text/javascript")), Num(2048),
               Str(Lit("f")), Str(Lit("tidy"))) }

\* ------------------------------------------------------------------------
\* State
\* ------------------------------------------------------------------------

VARIABLES
  sessions,  \* the Map sessions: session id -> reference to a session object
  heap,      \* the session objects, by reference: [id, messages]
  req,       \* every request handler: its position and its local variables
  calls,     \* per request, the backend calls it issued and how they settled
  order,     \* the requests in the order they arrived
  probe      \* a pure function under test: its argument and its result

vars == <<sessions, heap, req, calls, order, probe>>

Turn(role, content) == [role |-> role, content |-> content]

\* no pure function is under test while the server runs
NoProbe == [fn |-> "none"]

\* faulty variant: the user turn stored with the assistant role
UserTurnAsAssistant(content) == Turn("assistant", content)

\* { role: "user", content }
UserTurn(content) == Turn("user", content)

\* faulty variant: the assistant turn stored with the user role
AssistantTurnAsUser(result) == Turn("user", result.text)

\* { role: "assistant", content: result.text }
AssistantTurn(result) == Turn("assistant", result.text)

IdleReq ==
  [pc |-> "idle", kind |-> "none", session |-> 0, responsesInput |-> <<>>,
   attempt |-> 0, lastError |-> Null, result |-> Undef, thrown |-> Undef,
   status |-> 0, body |-> Undef]

Init ==
  /\ sessions = <<>>
  /\ heap = <<>>
  /\ req = [r \in Reqs |-> IdleReq]
  /\ calls = [r \in Reqs |-> <<>>]
  /\ order = <<>>
  /\ probe = NoProbe

\* ------------------------------------------------------------------------
\* Session store
\* ------------------------------------------------------------------------

\* the key used by getOrCreateSession: a falsy sessionId is replaced
SessionKey(sessionId, gen) == IF ~Truthy(sessionId) THEN gen ELSE sessionId

\* faulty variant: a known session is returned as a copy, { ...s }
getOrCreateSessionCopy(sessionId, gen) ==
  LET id == SessionKey(sessionId, gen)
  IN IF id \in DOMAIN sessions
     THEN [sessions |-> sessions,
           heap |-> Append(heap, heap[sessions[id]]),
           s |-> Len(heap) + 1]
     ELSE [sessions |-> sessions @@ (id :> (Len(heap) + 1)),
           heap |-> Append(heap, [id |-> id, messages |-> <<>>]),
           s |-> Len(heap) + 1]

\* getOrCreateSession: the store and the heap after the call, and the
\* reference s it returns
getOrCreateSession(sessionId, gen) ==
  LET id == SessionKey(sessionId, gen)
  IN IF id \in DOMAIN sessions
     THEN [sessions |-> sessions, heap |-> heap, s |-> sessions[id]]
     ELSE [sessions |-> sessions @@ (id :> (Len(heap) + 1)),
           heap |-> Append(heap, [id |-> id, messages |-> <<>>]),
           s |-> Len(heap) + 1]

\* faulty variant: unshift instead of push
PushFront(h, s, turn) == [h EXCEPT ![s].messages = <<turn>> \o @]

\* faulty variant: the history is capped, the oldest turn is evicted
PushCapped(h, s, turn) ==
  [h EXCEPT ![s].messages =
     IF Len(@) >= 2 THEN Append(Tail(@), turn) ELSE Append(@, turn)]

\* session.messages.push(turn) through the reference s
Push(h, s, turn) == [h EXCEPT ![s].messages = Append(@, turn)]

\* ------------------------------------------------------------------------
\* generateWithFallback
\* ------------------------------------------------------------------------

\* number of primary attempts: for (attempt = 1; attempt <= 2; attempt++)
PrimaryAttempts == 2

\* faulty variant: a sliding window that drops the oldest turn of a longer history
WithSystemPromptWindow(sessionMessages) ==
  <<Turn("system", BASE_SYSTEM_PROMPT)>>
  \o (IF Len(sessionMessages) > 1 THEN Tail(sessionMessages)
      ELSE sessionMessages)

\* faulty variant: the system instruction is left out of the request
WithoutSystemPrompt(sessionMessages) ==
  [i \in 1..Len(sessionMessages) |->
     Turn(sessionMessages[i].role, sessionMessages[i].content)]

\* [system instruction, ...sessionMessages.map(m => ({role, content}))]
WithSystemPrompt(sessionMessages) ==
  <<Turn("system", BASE_SYSTEM_PROMPT)>>
  \o [i \in 1..Len(sessionMessages) |->
        Turn(sessionMessages[i].role, sessionMessages[i].content)]

\* the record of a backend call at the moment it is issued; stored is the
\* session's message sequence at that moment
Call(tier, model, input, stored) ==
  [tier |-> tier, model |-> model, input |-> input, stored |-> stored,
   outcome |-> [kind |-> "pending"]]

Settle(cs, outcome) == [cs EXCEPT ![Len(cs)].outcome = outcome]

\* faulty variant: the success test inverted, if (!text)
IsSuccessInverted(text) == text = <<>>

\* if (text): a primary attempt succeeded
IsSuccess(text) == text # <<>>

\* faulty variant: the loop ends after the first attempt
HasNextAttemptNever(attempt) == FALSE

\* faulty variant: one attempt too many, attempt <= 3
HasNextAttemptThree(attempt) == attempt + 1 <= PrimaryAttempts + 1

\* the loop condition attempt <= 2 after attempt++ : another attempt follows
HasNextAttempt(attempt) == attempt + 1 <= PrimaryAttempts

\* what a settled primary call delivered: x is the normalized response
PrimaryOutcome(x, e) ==
  IF ~x.ok THEN [kind |-> "fault", error |-> e]
  ELSE IF x.s = <<>> THEN [kind |-> "empty"]
  ELSE [kind |-> "text", text |-> x.s]

\* what a settled secondary call delivered
SecondaryOutcome(completion) ==
  LET content ==
        OptGet(OptGet(OptFirst(OptGet(completion, "choices")), "message"),
               "content")
  IN IF content.t = "string" /\ content.s # <<>>
     THEN [kind |-> "text", text |-> content.s]
     ELSE [kind |-> "empty"]

PrimaryResult(text) ==
  [text |-> text, modelUsed |-> CODE_MODEL, fromFallback |-> FALSE]

\* faulty variant: the content is returned as it is, without the sentinel
FallbackTextNoSentinel(completion) ==
  LET content ==
        OptGet(OptGet(OptFirst(OptGet(completion, "choices")), "message"),
               "content")
  IN IF content.t = "string" THEN content.s ELSE <<>>

\* completion.choices?.[0]?.message?.content || "[No content ...]"
FallbackText(completion) ==
  LET content ==
        OptGet(OptGet(OptFirst(OptGet(completion, "choices")), "message"),
               "content")
  IN IF Truthy(content) THEN content.s ELSE NO_CONTENT

\* faulty variant: the secondary result labelled as a primary one
SecondaryResultAsPrimary(text) ==
  [text |-> text, modelUsed |-> CODE_MODEL, fromFallback |-> FALSE]

SecondaryResult(text) ==
  [text |-> text, modelUsed |-> FALLBACK_MODEL, fromFallback |-> TRUE]

\* throw lastError || err
ThrownError(lastError, err) == IF Truthy(lastError) THEN lastError ELSE err

\* generateWithFallback from its entry to the first await: the request is
\* built from the session's messages h[s].messages and attempt 1 is issued
EnterGenerate(r, kind, gs, h) ==
  /\ sessions' = gs.sessions
  /\ heap' = h
  /\ req' = [req EXCEPT ![r] =
       [IdleReq EXCEPT !.pc = "primary", !.kind = kind, !.session = gs.s,
                       !.responsesInput = WithSystemPrompt(h[gs.s].messages),
                       !.attempt = 1]]
  /\ calls' = [calls EXCEPT ![r] =
       <<Call("primary", CODE_MODEL, WithSystemPrompt(h[gs.s].messages),
              h[gs.s].messages)>>]

\* a failed primary attempt: remember the error, then either the next
\* attempt with the request built at entry, or the secondary call with a
\* request built now from the session's messages
PrimaryFailed(r, err, outcome) ==
  LET stored == heap[req[r].session].messages
  IN /\ IF HasNextAttempt(req[r].attempt)
        THEN /\ req' = [req EXCEPT ![r].lastError = err,
                                   ![r].attempt = @ + 1]
             /\ calls' = [calls EXCEPT ![r] =
                  Append(Settle(@, outcome),
                         Call("primary", CODE_MODEL, req[r].responsesInput,
                              stored))]
        ELSE /\ req' = [req EXCEPT ![r].lastError = err,
                                   ![r].pc = "secondary"]
             /\ calls' = [calls EXCEPT ![r] =
                  Append(Settle(@, outcome),
                         Call("secondary", FALLBACK_MODEL,
                              WithSystemPrompt(stored), stored))]
     /\ UNCHANGED <<sessions, heap, order>>

\* openai.responses.create resolves with resp
PrimaryResolves(r, resp) ==
  /\ req[r].pc = "primary"
  /\ UNCHANGED probe
  /\ LET x == extractTextFromResponse(resp)
         typeError == Error(Lit("TypeError"), r, Len(calls[r]))
         outcome == PrimaryOutcome(x, typeError)
     IN IF x.ok /\ IsSuccess(x.s)
        THEN /\ req' = [req EXCEPT ![r].pc = "returned",
                                   ![r].result = PrimaryResult(x.s)]
             /\ calls' = [calls EXCEPT ![r] = Settle(@, outcome)]
             /\ UNCHANGED <<sessions, heap, order>>
        ELSE IF x.ok
        THEN PrimaryFailed(r, Error(EMPTY_OUTPUT_MESSAGE, r, Len(calls[r])),
                           outcome)
        ELSE PrimaryFailed(r, typeError, outcome)

\* openai.responses.create rejects (network, timeout, non-2xx)
PrimaryRejects(r, msg) ==
  /\ req[r].pc = "primary"
  /\ UNCHANGED probe
  /\ LET e == Error(msg, r, Len(calls[r]))
     IN PrimaryFailed(r, e, [kind |-> "fault", error |-> e])

\* faulty variant: the orchestrator stores the assistant turn itself
SecondaryResolvesAndStores(r, completion) ==
  /\ req[r].pc = "secondary"
  /\ UNCHANGED probe
  /\ req' = [req EXCEPT ![r].pc = "returned",
                        ![r].result = SecondaryResult(FallbackText(completion))]
  /\ calls' = [calls EXCEPT ![r] = Settle(@, SecondaryOutcome(completion))]
  /\ heap' = Push(heap, req[r].session,
                  AssistantTurn(SecondaryResult(FallbackText(completion))))
  /\ UNCHANGED <<sessions, order>>

\* openai.chat.completions.create resolves with completion
SecondaryResolves(r, completion) ==
  /\ req[r].pc = "secondary"
  /\ UNCHANGED probe
  /\ req' = [req EXCEPT ![r].pc = "returned",
                        ![r].result = SecondaryResult(FallbackText(completion))]
  /\ calls' = [calls EXCEPT ![r] = Settle(@, SecondaryOutcome(completion))]
  /\ UNCHANGED <<sessions, heap, order>>

\* openai.chat.completions.create rejects
SecondaryRejects(r, msg) ==
  /\ req[r].pc = "secondary"
  /\ UNCHANGED probe
  /\ LET e == Error(msg, r, Len(calls[r]))
     IN /\ req' = [req EXCEPT ![r].pc = "thrown",
                              ![r].thrown = ThrownError(req[r].lastError, e)]
        /\ calls' = [calls EXCEPT ![r] =
             Settle(@, [kind |-> "fault", error |-> e])]
  /\ UNCHANGED <<sessions, heap, order>>

\* ------------------------------------------------------------------------
\* /api/chat
\* ------------------------------------------------------------------------

\* faulty variant: only the type of message is examined
IsBadMessageTypeOnly(message) == message.t # "string"

\* !message || typeof message !== "string"
IsBadMessage(message) == ~Truthy(message) \/ message.t # "string"

\* the handler from the arrival of the request to its first await
ChatRequest(r, sessionId, message, gen) ==
  /\ r = Len(order) + 1
  /\ UNCHANGED probe
  /\ req[r].pc = "idle"
  /\ order' = Append(order, r)
  /\ IF IsBadMessage(message)
     THEN /\ req' = [req EXCEPT ![r] =
               [IdleReq EXCEPT !.pc = "done", !.kind = "chat",
                               !.status = 400,
                               !.body = [error |->
                                  Lit("Missing 'message' in request body.")]]]
          /\ UNCHANGED <<sessions, heap, calls>>
     ELSE LET gs == getOrCreateSession(sessionId, gen)
          IN EnterGenerate(r, "chat", gs,
                           Push(gs.heap, gs.s, UserTurn(message.s)))

\* ------------------------------------------------------------------------
\* /api/upload
\* ------------------------------------------------------------------------

\* the ceiling on embedded file content, in characters
MAX_CHARS == 200000

\* `${(fileSize / 1024).toFixed(1)} KB` : the size in tenths of a KB
HumanSize(fileSize) ==
  IF fileSize.t = "number"
  THEN Cat(NumText("KB/10", (fileSize.v * 10 + 512) \div 1024), Lit(" KB"))
  ELSE Lit("unknown size")

OrDefault(v, default) == IF Truthy(v) THEN ToText(v) ELSE default

UploadHeader(b) ==
  CatAll(<<Lit("File name: "), ToText(b.fileName), Lit("MIME type: "),
           OrDefault(b.fileType, Lit("unknown")), Lit("Size: "),
           HumanSize(b.fileSize)>>)

\* faulty variant: the ceiling itself is already over budget, length < MAX_CHARS
UploadBranchStrict(fileContent) ==
  IF fileContent.t = "string" /\ StrLen(Trim(fileContent.s)) > 0
     /\ StrLen(fileContent.s) < MAX_CHARS
  THEN "full"
  ELSE IF fileContent.t = "string" /\ StrLen(Trim(fileContent.s)) > 0
  THEN "truncated"
  ELSE "describe"

\* which of the three messages is built
UploadBranch(fileContent) ==
  IF fileContent.t = "string" /\ StrLen(Trim(fileContent.s)) > 0
     /\ StrLen(fileContent.s) <= MAX_CHARS
  THEN "full"
  ELSE IF fileContent.t = "string" /\ StrLen(Trim(fileContent.s)) > 0
  THEN "truncated"
  ELSE "describe"

FullMessage(b) ==
  Trim(CatAll(<<Lit("The user uploaded a code file for review/refactor."),
                UploadHeader(b),
                Lit("Here is the full (or near full) content of the file:"),
                b.fileContent.s,
                Lit("USER REQUEST / CONTEXT:"),
                OrDefault(b.instructions,
                          Lit("Refactor and improve this code. Fix bugs and improve structure.")),
                Lit("Please refactor and improve this code. Output the full improved version, not just bullet points."),
                Rep(" ", 6)>>))

TruncatedMessage(b) ==
  LET half == MAX_CHARS \div 2
      head == Slice(b.fileContent.s, 0, half)
      tail == SliceLast(b.fileContent.s, half)
      omitted == StrLen(b.fileContent.s) - MAX_CHARS
  IN Trim(CatAll(<<Lit("The user uploaded a very large code file for review/refactor."),
                   UploadHeader(b),
                   Lit("Original length (chars): "),
                   NumText("length", StrLen(b.fileContent.s)),
                   Lit("NOTE: Content has been truncated to fit within model limits. Approximately "),
                   NumText("omitted", omitted),
                   Lit(" characters omitted."),
                   Lit("--- BEGIN TRUNCATED CONTENT (HEAD) ---"),
                   head,
                   Lit("--- MIDDLE OMITTED ---"),
                   tail,
                   Lit("--- END TRUNCATED CONTENT ---"),
                   Lit("USER REQUEST / CONTEXT:"),
                   OrDefault(b.instructions,
                             Lit("Refactor and improve this code. Fix bugs and improve structure.")),
                   Lit("Please refactor and improve this code. Focus on architecture, clarity, and obvious issues based on the visible portions. Output full revised code where possible."),
                   Rep(" ", 6)>>))

DescribeMessage(b) ==
  Trim(CatAll(<<Lit("The user uploaded a non-text or unsupported file for refactoring."),
                UploadHeader(b),
                Lit("The raw contents are not available in this minimal webapp (e.g. .zip or .docx)."),
                Lit("USER REQUEST / CONTEXT:"),
                OrDefault(b.instructions,
                          Lit("High-level refactor strategy for this codebase.")),
                Rep(" ", 6)>>))

\* messageForModel
UploadMessage(b) ==
  CASE UploadBranch(b.fileContent) = "full" -> FullMessage(b)
    [] UploadBranch(b.fileContent) = "truncated" -> TruncatedMessage(b)
    [] OTHER -> DescribeMessage(b)

\* the handler from the arrival of the request to its first await
UploadRequest(r, sessionId, b, gen) ==
  /\ r = Len(order) + 1
  /\ UNCHANGED probe
  /\ req[r].pc = "idle"
  /\ order' = Append(order, r)
  /\ IF ~Truthy(b.fileName)
     THEN /\ req' = [req EXCEPT ![r] =
               [IdleReq EXCEPT !.pc = "done", !.kind = "upload",
                               !.status = 400,
                               !.body = [error |->
                                  Lit("Missing 'fileName' in request body.")]]]
          /\ UNCHANGED <<sessions, heap, calls>>
     ELSE LET gs == getOrCreateSession(sessionId, gen)
          IN EnterGenerate(r, "upload", gs,
                           Push(gs.heap, gs.s, UserTurn(UploadMessage(b))))

\* a handler that has sent its response: its local variables are gone
Finished(r, status, body) ==
  [IdleReq EXCEPT !.pc = "done", !.kind = req[r].kind,
                  !.session = req[r].session, !.status = status,
                  !.body = body]

\* faulty variant: the assistant turn is pushed twice
HandlerResumesPushesTwice(r) ==
  /\ req[r].pc = "returned"
  /\ UNCHANGED probe
  /\ heap' = Push(Push(heap, req[r].session, AssistantTurn(req[r].result)),
                  req[r].session, AssistantTurn(req[r].result))
  /\ req' = [req EXCEPT ![r] =
       Finished(r, 200, [assistantText |-> req[r].result.text,
                         modelUsed |-> req[r].result.modelUsed,
                         fromFallback |-> req[r].result.fromFallback,
                         sessionId |-> heap[req[r].session].id])]
  /\ calls' = [calls EXCEPT ![r] = <<>>]
  /\ UNCHANGED <<sessions, order>>

\* the handler after await generateWithFallback(session) returned
HandlerResumes(r) ==
  /\ req[r].pc = "returned"
  /\ UNCHANGED probe
  /\ heap' = Push(heap, req[r].session, AssistantTurn(req[r].result))
  /\ req' = [req EXCEPT ![r] =
       Finished(r, 200, [assistantText |-> req[r].result.text,
                         modelUsed |-> req[r].result.modelUsed,
                         fromFallback |-> req[r].result.fromFallback,
                         sessionId |-> heap[req[r].session].id])]
  /\ calls' = [calls EXCEPT ![r] = <<>>]
  /\ UNCHANGED <<sessions, order>>

\* err?.message || "Unexpected error in /api/..."
ErrorText(err, kind) ==
  IF Truthy(err) /\ err.message # <<>> THEN err.message
  ELSE IF kind = "chat"
  THEN Lit("Unexpected error in /api/chat (check server logs for details).")
  ELSE Lit("Unexpected error in /api/upload (likely file too large or model timeout).")

\* faulty variant: the catch block takes the last stored turn back
HandlerCatchesRollsBack(r) ==
  /\ req[r].pc = "thrown"
  /\ UNCHANGED probe
  /\ req' = [req EXCEPT ![r] =
       Finished(r, 500, [error |-> ErrorText(req[r].thrown, req[r].kind)])]
  /\ calls' = [calls EXCEPT ![r] = <<>>]
  /\ heap' = [heap EXCEPT ![req[r].session].messages =
                 SubSeq(@, 1, Len(@) - 1)]
  /\ UNCHANGED <<sessions, order>>

\* the handler's catch block after generateWithFallback threw
HandlerCatches(r) ==
  /\ req[r].pc = "thrown"
  /\ UNCHANGED probe
  /\ req' = [req EXCEPT ![r] =
       Finished(r, 500, [error |-> ErrorText(req[r].thrown, req[r].kind)])]
  /\ calls' = [calls EXCEPT ![r] = <<>>]
  /\ UNCHANGED <<sessions, heap, order>>

Next ==
  \/ \E r \in Reqs, sid \in SessionIdInputs, m \in MessageInputs,
        g \in GeneratedIds : ChatRequest(r, sid, m, g)
  \/ \E r \in Reqs, sid \in SessionIdInputs, b \in UploadInputs,
        g \in GeneratedIds : UploadRequest(r, sid, b, g)
  \/ \E r \in Reqs, resp \in PrimaryResponses : PrimaryResolves(r, resp)
  \/ \E r \in Reqs, msg \in FaultMessages : PrimaryRejects(r, msg)
  \/ \E r \in Reqs, c \in Completions : SecondaryResolves(r, c)
  \/ \E r \in Reqs, msg \in FaultMessages : SecondaryRejects(r, msg)
  \/ \E r \in Reqs : HandlerResumes(r)
  \/ \E r \in Reqs : HandlerCatches(r)

Spec == Init /\ [][Next]_vars

\* the same handlers when the client issues requests one after another:
\* a request arrives only when no other request is being handled
NoneInFlight == \A q \in Reqs : req[q].pc \in {"idle", "done"}

SeqNext ==
  \/ /\ NoneInFlight
     /\ \E r \in Reqs, sid \in SessionIdInputs, m \in MessageInputs,
           g \in GeneratedIds : ChatRequest(r, sid, m, g)
  \/ /\ NoneInFlight
     /\ \E r \in Reqs, sid \in SessionIdInputs, b \in UploadInputs,
           g \in GeneratedIds : UploadRequest(r, sid, b, g)
  \/ \E r \in Reqs, resp \in PrimaryResponses : PrimaryResolves(r, resp)
  \/ \E r \in Reqs, msg \in FaultMessages : PrimaryRejects(r, msg)
  \/ \E r \in Reqs, c \in Completions : SecondaryResolves(r, c)
  \/ \E r \in Reqs, msg \in FaultMessages : SecondaryRejects(r, msg)
  \/ \E r \in Reqs : HandlerResumes(r)
  \/ \E r \in Reqs : HandlerCatches(r)

SeqSpec == Init /\ [][SeqNext]_vars

\* ------------------------------------------------------------------------
\* Properties of generateWithFallback
\* ------------------------------------------------------------------------

Failed(c) == c.outcome.kind \in {"empty", "fault"}

\* both primary attempts of r were made and failed, and the secondary call
\* was issued
PrimaryExhausted(r) ==
  /\ Len(calls[r]) = 3
  /\ calls[r][1].tier = "primary" /\ Failed(calls[r][1])
  /\ calls[r][2].tier = "primary" /\ Failed(calls[r][2])
  /\ calls[r][3].tier = "secondary"

\* C1: as soon as a primary attempt yields non-empty normalized text, the
\* call returns that text with fromFallback = false and modelUsed = the
\* primary model; that attempt is the last backend call of the invocation
\* and no secondary call was made.
C1_PrimarySuccessReturnsAtOnce ==
  \A r \in Reqs : \A i \in 1..Len(calls[r]) :
    (calls[r][i].tier = "primary" /\ calls[r][i].outcome.kind = "text") =>
      /\ i = Len(calls[r])
      /\ \A j \in 1..Len(calls[r]) : calls[r][j].tier = "primary"
      /\ req[r].pc = "returned"
      /\ req[r].result = [text |-> calls[r][i].outcome.text,
                          modelUsed |-> CODE_MODEL, fromFallback |-> FALSE]

\* a primary tier that failed on attempt 1 and succeeded on attempt 2
C1_Witness ==
  \E r \in Reqs :
    /\ Len(calls[r]) = 2
    /\ Failed(calls[r][1])
    /\ calls[r][2].tier = "primary" /\ calls[r][2].outcome.kind = "text"
    /\ req[r].pc = "returned"

\* C2: when both primary attempts failed and the secondary call returned,
\* the result has fromFallback = true and modelUsed = the secondary model.
C2_SecondaryResultIsFallback ==
  \A r \in Reqs :
    (PrimaryExhausted(r) /\ calls[r][3].outcome.kind \in {"text", "empty"}) =>
      /\ req[r].pc = "returned"
      /\ req[r].result.fromFallback = TRUE
      /\ req[r].result.modelUsed = FALLBACK_MODEL

\* two primary faults followed by a secondary call that returned text
C2_Witness ==
  \E r \in Reqs :
    /\ PrimaryExhausted(r)
    /\ calls[r][1].outcome.kind = "fault" /\ calls[r][2].outcome.kind = "fault"
    /\ calls[r][3].outcome.kind = "text"
    /\ req[r].pc = "returned"

\* C3: whenever generateWithFallback throws, exactly two primary attempts
\* were made and failed and the one secondary call raised a fault.
C3_ThrowsOnlyWhenExhausted ==
  \A r \in Reqs :
    req[r].pc = "thrown" =>
      PrimaryExhausted(r) /\ calls[r][3].outcome.kind = "fault"

\* an invocation that threw
C3_Witness ==
  \E r \in Reqs : req[r].pc = "thrown" /\ Len(calls[r]) = 3

\* C4: when the secondary call raises and a primary attempt raised a fault,
\* the error thrown is the fault of the most recent primary attempt that
\* raised one (fault/fault, fault/empty and empty/fault alike).
C4_ThrowsLastPrimaryFault ==
  \A r \in Reqs :
    (/\ req[r].pc = "thrown"
     /\ PrimaryExhausted(r)
     /\ \E i \in 1..2 : calls[r][i].outcome.kind = "fault") =>
      LET last == IF calls[r][2].outcome.kind = "fault" THEN 2 ELSE 1
      IN req[r].thrown = calls[r][last].outcome.error

\* C5: when both primary attempts only returned empty text and the
\* secondary call raises, the error thrown is the secondary call's fault.
C5_ThrowsSecondaryFault ==
  \A r \in Reqs :
    (/\ req[r].pc = "thrown"
     /\ PrimaryExhausted(r)
     /\ calls[r][1].outcome.kind = "empty"
     /\ calls[r][2].outcome.kind = "empty") =>
      req[r].thrown = calls[r][3].outcome.error

\* C6: every result that is returned has a non-empty text; when the
\* secondary call returned without content the text is the sentinel and
\* the result is a fallback success.
C6_ReturnedTextNonEmpty ==
  \A r \in Reqs :
    req[r].pc = "returned" =>
      /\ req[r].result.text # <<>>
      /\ StrLen(req[r].result.text) > 0
      /\ (PrimaryExhausted(r) /\ calls[r][3].outcome.kind = "empty") =>
           /\ req[r].result.text = NO_CONTENT
           /\ req[r].result.fromFallback = TRUE

\* a secondary call that returned without content, papered over
C6_Witness ==
  \E r \in Reqs :
    /\ req[r].pc = "returned"
    /\ PrimaryExhausted(r)
    /\ calls[r][3].outcome.kind = "empty"

\* ------------------------------------------------------------------------
\* Properties of the context sent to the backends
\* ------------------------------------------------------------------------

IsPrefix(p, q) == Len(p) <= Len(q) /\ SubSeq(q, 1, Len(p)) = p

SystemTurn == [role |-> "system", content |-> BASE_SYSTEM_PROMPT]

\* C7 as claimed: at every backend call the request is the system
\* instruction followed by the session's stored sequence at that moment.
C7_EveryRequestIsCurrentHistory ==
  \A r \in Reqs : \A i \in 1..Len(calls[r]) :
    calls[r][i].input = <<SystemTurn>> \o calls[r][i].stored

\* C7 amended: the first primary attempt and the secondary call carry the
\* system instruction followed by the stored sequence of that moment; the
\* primary retry carries the request of the first attempt, whose turns are
\* a prefix of the sequence stored at the moment of the retry.
C7_RequestIsHistoryAtEntryOrNow ==
  \A r \in Reqs : \A i \in 1..Len(calls[r]) :
    LET c == calls[r][i]
    IN IF c.tier = "primary" /\ i > 1
       THEN /\ c.input = <<SystemTurn>> \o calls[r][1].stored
            /\ IsPrefix(calls[r][1].stored, c.stored)
       ELSE c.input = <<SystemTurn>> \o c.stored

\* a retry and a secondary call issued after another request appended to
\* the session: the retry is stale, the secondary request is current
C7_Witness ==
  \E r \in Reqs :
    /\ Len(calls[r]) = 3
    /\ calls[r][2].tier = "primary"
    /\ calls[r][2].stored # calls[r][1].stored
    /\ calls[r][3].tier = "secondary"
    /\ Len(calls[r][3].input) > Len(calls[r][2].input)

\* ------------------------------------------------------------------------
\* Properties of the session store
\* ------------------------------------------------------------------------

\* C8: a session's history changes only by appending at its end, no stored
\* turn is altered or removed and no session leaves the store, in every
\* step of every interleaving of chat and upload requests.
C8_HistoryAppendOnly ==
  [][/\ Len(heap') >= Len(heap)
     /\ \A a \in 1..Len(heap) :
          /\ heap'[a].id = heap[a].id
          /\ IsPrefix(heap[a].messages, heap'[a].messages)
     /\ \A k \in DOMAIN sessions :
          k \in DOMAIN sessions' /\ sessions'[k] = sessions[k]]_vars

\* a session that a chat request and an upload request both appended to
C8_Witness ==
  \E r1, r2 \in Reqs :
    /\ req[r1].kind = "chat" /\ req[r2].kind = "upload"
    /\ req[r1].session # 0 /\ req[r1].session = req[r2].session
    /\ Len(heap[req[r1].session].messages) >= 3

\* C9: getOrCreateSession with an id already in the store returns the
\* stored session object itself and changes neither the store nor any
\* history; no id has a second session object, and every reference a
\* handler holds is the stored object of its id.
C9_GetOrCreateIdempotent ==
  /\ \A id \in DOMAIN sessions : \A g \in GeneratedIds :
       /\ getOrCreateSession(id, g).s = sessions[id]
       /\ getOrCreateSession(id, g).sessions = sessions
       /\ getOrCreateSession(id, g).heap = heap
       /\ heap[sessions[id]].id = id
  /\ \A a, b \in 1..Len(heap) : heap[a].id = heap[b].id => a = b
  /\ \A r \in Reqs :
       req[r].session # 0 =>
         sessions[heap[req[r].session].id] = req[r].session

\* two handlers that obtained the session of one id, each having appended
C9_Witness ==
  \E r1, r2 \in Reqs :
    /\ r1 # r2
    /\ req[r1].session # 0 /\ req[r1].session = req[r2].session
    /\ Len(heap[req[r1].session].messages) >= 2

\* the requests that were handled on the session object a, in arrival order
OnSession(a) ==
  LET Uses(r) == req[r].session = a
  IN SelectSeq(order, Uses)

\* C10: when the requests on a session are issued one after another and all
\* succeeded, the history has two turns per request, alternating user and
\* assistant from a user turn, and the k-th assistant turn holds the
\* assistantText answered to the k-th request.
C10_SequentialAlternation ==
  \A a \in 1..Len(heap) :
    LET rs == OnSession(a)
        m == heap[a].messages
    IN (\A k \in 1..Len(rs) :
          req[rs[k]].pc = "done" /\ req[rs[k]].status = 200) =>
         /\ Len(m) = 2 * Len(rs)
         /\ \A k \in 1..Len(rs) :
              /\ m[2 * k - 1].role = "user"
              /\ m[2 * k].role = "assistant"
              /\ m[2 * k].content = req[rs[k]].body.assistantText

\* two successful requests, one after the other, on one session
C10_Witness ==
  \E a \in 1..Len(heap) :
    /\ Len(OnSession(a)) = 2
    /\ \A k \in 1..2 : req[OnSession(a)[k]].status = 200
    /\ Len(heap[a].messages) = 4

\* ------------------------------------------------------------------------
\* Concurrent requests on one session
\* ------------------------------------------------------------------------

\* the history of the session object a before it exists is empty
HistoryOf(h, a) == IF a \in 1..Len(h) THEN h[a].messages ELSE <<>>

\* C11: requests on one session are not serialized: every handler appends
\* its turn at the end of the history as it is at that moment, whatever else
\* is in flight on the session. An arriving request appends its user turn
\* at once, and a request whose generation returned appends its assistant
\* turn at once, also when a request that arrived earlier on the same
\* session has not answered yet; so the assistant turns are stored in
\* completion order and two user turns can be adjacent.
C11_AppendsAtOwnTime ==
  [][\A r \in Reqs :
       /\ (req[r].pc = "idle" /\ req'[r].pc = "primary") =>
            LET a == req'[r].session
                m == HistoryOf(heap', a)
            IN /\ m = Append(HistoryOf(heap, a), m[Len(m)])
               /\ m[Len(m)].role = "user"
       /\ (req[r].pc = "returned" /\ req'[r].pc = "done") =>
            LET a == req[r].session
            IN heap'[a].messages =
                 Append(heap[a].messages,
                        [role |-> "assistant",
                         content |-> req'[r].body.assistantText])]_vars

\* request A (a chat answered "a" by the primary tier) and request B (an
\* upload answered "b" by the secondary tier) on one session, B arriving
\* while A is in flight and answering first:
\* user A, user B, assistant B, assistant A
C11_Witness ==
  \E a \in 1..Len(heap) :
    /\ OnSession(a) = <<1, 2>>
    /\ req[1].kind = "chat" /\ req[1].status = 200
    /\ req[2].kind = "upload" /\ req[2].status = 200
    /\ req[1].body.assistantText = Lit("a")
    /\ req[2].body.assistantText = Lit("b")
    /\ heap[a].messages =
         << [role |-> "user", content |-> Lit("hi")],
            [role |-> "user", content |-> UploadMessage(CHOOSE b \in UploadInputs : Truthy(b.fileName))],
            [role |-> "assistant", content |-> Lit("b")],
            [role |-> "assistant", content |-> Lit("a")] >>

\* the same two requests answering in arrival order:
\* user A, user B, assistant A, assistant B
C11_AdjacentUsersInOrder ==
  \E a \in 1..Len(heap) :
    /\ OnSession(a) = <<1, 2>>
    /\ req[1].status = 200 /\ req[2].status = 200
    /\ req[1].body.assistantText = Lit("a")
    /\ req[2].body.assistantText = Lit("b")
    /\ \A k \in 1..2 : heap[a].messages[k].role = "user"
    /\ heap[a].messages[3].content = Lit("a")
    /\ heap[a].messages[4].content = Lit("b")

\* ------------------------------------------------------------------------
\* Client faults and server faults
\* ------------------------------------------------------------------------

\* a message that is missing, empty or not a string
BadMessages == {m \in MessageInputs : m.t # "string" \/ m.s = <<>>}

\* C12: a chat request whose message is missing, empty or not a string, and
\* an upload request whose fileName is missing, is answered 400 in the step
\* in which it arrives, and that step issues no backend call, creates no
\* session and appends no turn: the store, the session objects and the call
\* log are unchanged and the request holds no session.
C12_ClientFaultStopsAtHandler ==
  [][\A r \in Reqs :
       (\/ \E sid \in SessionIdInputs, g \in GeneratedIds, m \in BadMessages :
             ChatRequest(r, sid, m, g)
        \/ \E sid \in SessionIdInputs, g \in GeneratedIds, b \in UploadInputs :
             b.fileName = Undef /\ UploadRequest(r, sid, b, g))
       => /\ req'[r].pc = "done"
          /\ req'[r].status = 400
          /\ req'[r].session = 0
          /\ sessions' = sessions
          /\ heap' = heap
          /\ calls' = calls]_vars

\* a chat request and an upload request both answered 400, and still no
\* session in the store
C12_Witness ==
  /\ \E r \in Reqs : req[r].kind = "chat" /\ req[r].status = 400
  /\ \E r \in Reqs : req[r].kind = "upload" /\ req[r].status = 400
  /\ heap = <<>>
  /\ DOMAIN sessions = {}

\* ------------------------------------------------------------------------
\* The later definition of the server (the second half of server.mjs): one
\* chat.completions call per request, the Responses path switched off
\* ------------------------------------------------------------------------

CHAT_MODEL == "gpt-5.1"

\* const CODEX_MODEL = null: generateWithFallback skips generateWithResponses
CODEX_MODEL == Null

\* completion.choices?.[0]?.message?.content || "[No content ...]"
ChatText(completion) ==
  LET content ==
        OptGet(OptGet(OptFirst(OptGet(completion, "choices")), "message"),
               "content")
  IN IF Truthy(content) THEN content.s
     ELSE Lit("[No content returned by chat completion]")

\* the value generateWithChat returns
ChatResult(text) ==
  [text |-> text, modelUsed |-> CHAT_MODEL, fromFallback |-> FALSE]

\* generateWithFallback -> generateWithChat up to its await
LaterEnterGenerate(r, kind, gs, h) ==
  /\ sessions' = gs.sessions
  /\ heap' = h
  /\ req' = [req EXCEPT ![r] =
       [IdleReq EXCEPT !.pc = "chat", !.kind = kind, !.session = gs.s]]
  /\ calls' = [calls EXCEPT ![r] =
       <<Call("chat", CHAT_MODEL, WithSystemPrompt(h[gs.s].messages),
              h[gs.s].messages)>>]

\* /api/chat from the arrival of the request to its first await
LaterChatRequest(r, sessionId, message, gen) ==
  /\ r = Len(order) + 1
  /\ req[r].pc = "idle"
  /\ UNCHANGED probe
  /\ order' = Append(order, r)
  /\ IF IsBadMessage(message)
     THEN /\ req' = [req EXCEPT ![r] =
               [IdleReq EXCEPT !.pc = "done", !.kind = "chat",
                               !.status = 400,
                               !.body = [error |->
                                  Lit("Missing 'message' in request.")]]]
          /\ UNCHANGED <<sessions, heap, calls>>
     ELSE LET gs == getOrCreateSession(sessionId, gen)
          IN LaterEnterGenerate(r, "chat", gs,
                                Push(gs.heap, gs.s, UserTurn(message.s)))

\* /api/upload from the arrival of the request to its first await
LaterUploadRequest(r, sessionId, b, gen) ==
  /\ r = Len(order) + 1
  /\ req[r].pc = "idle"
  /\ UNCHANGED probe
  /\ order' = Append(order, r)
  /\ IF ~Truthy(b.fileName)
     THEN /\ req' = [req EXCEPT ![r] =
               [IdleReq EXCEPT !.pc = "done", !.kind = "upload",
                               !.status = 400,
                               !.body = [error |->
                                  Lit("Missing 'fileName' in request.")]]]
          /\ UNCHANGED <<sessions, heap, calls>>
     ELSE LET gs == getOrCreateSession(sessionId, gen)
          IN LaterEnterGenerate(r, "upload", gs,
                                Push(gs.heap, gs.s, UserTurn(UploadMessage(b))))

\* openai.chat.completions.create resolves with completion
ChatResolves(r, completion) ==
  /\ req[r].pc = "chat"
  /\ UNCHANGED probe
  /\ req' = [req EXCEPT ![r].pc = "returned",
                        ![r].result = ChatResult(ChatText(completion))]
  /\ calls' = [calls EXCEPT ![r] = Settle(@, SecondaryOutcome(completion))]
  /\ UNCHANGED <<sessions, heap, order>>

\* openai.chat.completions.create rejects: lastError = err, CODEX_MODEL is
\* null, throw lastError || new Error("All model calls failed.")
ChatRejects(r, msg) ==
  /\ req[r].pc = "chat"
  /\ UNCHANGED probe
  /\ LET e == Error(msg, r, Len(calls[r]))
     IN /\ req' = [req EXCEPT ![r].pc = "thrown",
                              ![r].lastError = e,
                              ![r].thrown =
                                ThrownError(e, Error(Lit("All model calls failed."),
                                                     r, Len(calls[r])))]
        /\ calls' = [calls EXCEPT ![r] =
             Settle(@, [kind |-> "fault", error |-> e])]
  /\ UNCHANGED <<sessions, heap, order>>

\* the fixed text of the later catch blocks
LaterErrorText(kind) ==
  IF kind = "chat"
  THEN Lit("Unexpected error in /api/chat. Check server logs on Render for details.")
  ELSE Lit("Unexpected error in /api/upload. Likely file too large or model timeout.")

\* the later handlers' catch block after generateWithFallback threw
LaterHandlerCatches(r) ==
  /\ req[r].pc = "thrown"
  /\ UNCHANGED probe
  /\ req' = [req EXCEPT ![r] =
       Finished(r, 500, [error |-> LaterErrorText(req[r].kind)])]
  /\ calls' = [calls EXCEPT ![r] = <<>>]
  /\ UNCHANGED <<sessions, heap, order>>

LaterNext ==
  \/ \E r \in Reqs, sid \in SessionIdInputs, m \in MessageInputs,
        g \in GeneratedIds : LaterChatRequest(r, sid, m, g)
  \/ \E r \in Reqs, sid \in SessionIdInputs, b \in UploadInputs,
        g \in GeneratedIds : LaterUploadRequest(r, sid, b, g)
  \/ \E r \in Reqs, c \in Completions : ChatResolves(r, c)
  \/ \E r \in Reqs, msg \in FaultMessages : ChatRejects(r, msg)
  \/ \E r \in Reqs : HandlerResumes(r)
  \/ \E r \in Reqs : LaterHandlerCatches(r)

LaterSpec == Init /\ [][LaterNext]_vars

\* C13: when generateWithFallback throws, the handler answers 500 and the
\* error text of the response is the message of the error that was thrown.
C13_ServerFaultCarriesMessage ==
  [][\A r \in Reqs :
       (req[r].pc = "thrown" /\ req'[r].pc = "done") =>
         /\ req'[r].status = 500
         /\ req'[r].body.error = req[r].thrown.message]_vars

\* C14: every 200 response carries a non-empty sessionId and an
\* assistantText that is non-empty after trimming whitespace, whichever
\* tier produced the text.
C14_SuccessBodyNonEmpty ==
  \A r \in Reqs :
    (req[r].pc = "done" /\ req[r].status = 200) =>
      /\ Truthy(req[r].body.sessionId)
      /\ Trim(req[r].body.assistantText) # <<>>

\* ------------------------------------------------------------------------
\* The upload triage as a function of the request body
\* ------------------------------------------------------------------------

\* fileContent fields: absent, null, not a string, empty, blank, short text,
\* text around the ceiling, text over the ceiling, blank text over the ceiling
TriageContents ==
  { Undef, Null, Num(7), Str(<<>>), Str(Rep(" ", 3)), Str(Lit("f")),
    Str(CatAll(<<Rep(" ", 1), Rep("f", 1), Rep("\n", 1)>>)),
    Str(Rep("x", MAX_CHARS - 1)), Str(Rep("x", MAX_CHARS)),
    Str(Rep("x", MAX_CHARS + 1)),
    Str(Cat(Rep("x", MAX_CHARS \div 2), Rep("y", MAX_CHARS \div 2 + 1))),
    Str(CatAll(<<Rep("x", MAX_CHARS \div 2), Rep("m", 5),
                 Rep("y", MAX_CHARS \div 2)>>)),
    Str(Cat(Rep(" ", 1), Rep("x", MAX_CHARS))),
    Str(Rep(" ", MAX_CHARS + 1)) }

TriageInputs ==
  { UploadBody(fileName, fileType, fileSize, fileContent, instructions) :
      fileName \in {Str(Lit("x.zip")), Str(Lit("a.js"))},
      fileType \in {Undef, Str(Lit("text/javascript"))},
      fileSize \in {Undef, Num(2048)},
      fileContent \in TriageContents,
      instructions \in {Undef, Str(Lit("tidy"))} }

TriageInit ==
  /\ Init!1 /\ Init!2 /\ Init!3 /\ Init!4 /\ Init!5
  /\ probe \in {[fn |-> "triage", arg |-> b, done |-> FALSE, out |-> <<>>] :
                  b \in TriageInputs}

\* the handler builds messageForModel from the request body
BuildUploadMessage ==
  /\ probe.fn = "triage" /\ ~probe.done
  /\ probe' = [probe EXCEPT !.done = TRUE, !.out = UploadMessage(probe.arg)]
  /\ UNCHANGED <<sessions, heap, req, calls, order>>

TriageNext == BuildUploadMessage

TriageSpec == TriageInit /\ [][TriageNext]_vars

\* the text s occurs in the message out, character for character
Contains(out, s) ==
  \E i \in 1..(Len(out) - Len(s) + 1) : SubSeq(out, i, i + Len(s) - 1) = s

\* no character of the content c occurs in an interpolated part of out
EmbedsNoneOf(out, c) ==
  c.t = "string" => \A i \in 1..Len(c.s), j \in 1..Len(out) : out[j].c # c.s[i].c

\* the branch a message came from, read off its opening sentence
IsDescribeOnly(out) ==
  out[1].c = "The user uploaded a non-text or unsupported file for refactoring."
IsFull(out) ==
  out[1].c = "The user uploaded a code file for review/refactor."
IsTruncated(out) ==
  out[1].c = "The user uploaded a very large code file for review/refactor."

\* the first half-ceiling and the last half-ceiling characters of s around
\* the omission marker
HeadAndTail(s) ==
  CatAll(<<Take(s, 100000), Lit("--- MIDDLE OMITTED ---"),
           Drop(s, StrLen(s) - 100000)>>)

\* what the three branches owe to the content c
DescribeOnlyFor(out, c) == IsDescribeOnly(out) /\ EmbedsNoneOf(out, c)
FullFor(out, c) == IsFull(out) /\ Contains(out, c.s)
TruncatedFor(out, c) ==
  IsTruncated(out) /\ Contains(out, HeadAndTail(c.s)) /\ ~Contains(out, c.s)

\* C15 as stated: content that is absent, not a string or empty gives the
\* describe-only message with none of the content; text of length
\* <= 200000 is embedded verbatim and in full; text of length > 200000 is
\* embedded head and tail; "x.zip" without fileContent is describe-only.
C15_TriageByLength ==
  (probe.fn = "triage" /\ probe.done) =>
    LET c == probe.arg.fileContent
        out == probe.out
    IN /\ (c.t # "string" \/ c.s = <<>>) => DescribeOnlyFor(out, c)
       /\ (c.t = "string" /\ c.s # <<>> /\ StrLen(c.s) <= 200000) =>
            FullFor(out, c)
       /\ (c.t = "string" /\ StrLen(c.s) > 200000) => TruncatedFor(out, c)

\* the content is a string with at least one character that is not
\* whitespace
HasText(c) ==
  c.t = "string" /\ \E i \in 1..Len(c.s) : ~IsWhite(c.s[i].c)

\* C15 amended: content that is absent, not a string, empty or made of
\* whitespace only gives the describe-only message with none of the
\* content, whatever its length; content with a non-whitespace character is
\* embedded verbatim and in full when its length is <= 200000 and head and
\* tail when it is longer; exactly one branch is taken.
C15_TriageByTrimmedContent ==
  (probe.fn = "triage" /\ probe.done) =>
    LET c == probe.arg.fileContent
        out == probe.out
    IN /\ ~HasText(c) => DescribeOnlyFor(out, c)
       /\ (HasText(c) /\ StrLen(c.s) <= 200000) => FullFor(out, c)
       /\ (HasText(c) /\ StrLen(c.s) > 200000) => TruncatedFor(out, c)
       /\ (probe.arg.fileName = Str(Lit("x.zip")) /\ c = Undef) =>
            IsDescribeOnly(out)

\* a three-blank content was triaged: it is text of length 3, and the
\* message is the describe-only one
C15_Witness ==
  /\ probe.fn = "triage" /\ probe.done
  /\ probe.arg.fileContent = Str(Rep(" ", 3))
  /\ IsDescribeOnly(probe.out)

\* ------------------------------------------------------------------------
\* The response normalizer as a function of the backend result
\* ------------------------------------------------------------------------

\* most output items of a generated response, most text parts of an item
MaxItems == 3
MaxParts == 2

\* the texts of the parts of one item, then of the items of one response
PartTexts == {Lit("a"), Lit("b")}
ItemTexts == UNION {[1..n -> PartTexts] : n \in 0..MaxParts}
ResponseTexts ==
  UNION {[1..n -> ItemTexts] : n \in 1..MaxItems}
  \cup { << <<Lit("a")>>, <<Lit("b")>>, <<Lit("c")>> >> }

\* the response { output: [ { content: [ { text }, ... ] }, ... ] } that
\* holds the texts ts
ResponseOf(ts) ==
  Resp([i \in 1..Len(ts) |->
          Item([j \in 1..Len(ts[i]) |-> TextPart(ts[i][j])])])

\* results with none of the recognized text-bearing shapes
UnrecognizedShapes ==
  { Undef, Null,
    Obj([id |-> Str(Lit("r"))]),
    Obj([output |-> Null]),
    Obj([output |-> Num(0)]),
    Obj([output |-> Num(5)]),
    Obj([output |-> Str(Lit("text"))]),
    Obj([output |-> Obj([id |-> Str(Lit("o"))])]),
    Resp(<<>>),
    Resp(<<Null>>),
    Resp(<<Null, Undef>>),
    Resp(<<Obj([id |-> Str(Lit("i"))])>>),
    Resp(<<Obj([content |-> Str(Lit("text"))])>>),
    Resp(<<Item(<<>>)>>),
    Resp(<<Item(<<Obj([type |-> Str(Lit("refusal"))])>>)>>),
    Resp(<<Item(<<Obj([text |-> Num(1)])>>)>>),
    Resp(<<Item(<<Null>>)>>),
    Resp(<<Item(<<Undef>>)>>) }

\* results that expose the text s in a top-level output_text field only:
\* as { output_text: { text: s } } and as { output_text: s }
ConvenienceOnly(s) ==
  { Obj([output_text |-> Obj([text |-> Str(s)])]),
    Obj([output_text |-> Str(s)]),
    Obj([id |-> Str(Lit("r")), output_text |-> Obj([text |-> Str(s)])]) }

NormalizerInit ==
  /\ Init!1 /\ Init!2 /\ Init!3 /\ Init!4 /\ Init!5
  /\ probe \in
       UNION {{[fn |-> "extract", shape |-> "convenience",
                texts |-> << <<s>> >>, arg |-> x, done |-> FALSE,
                out |-> Undef] : x \in ConvenienceOnly(s)} : s \in PartTexts}
       \cup
       {[fn |-> "extract", shape |-> "texts", texts |-> ts,
         arg |-> ResponseOf(ts), done |-> FALSE, out |-> Undef] :
          ts \in ResponseTexts}
       \cup
       {[fn |-> "extract", shape |-> "unrecognized", texts |-> <<>>,
         arg |-> x, done |-> FALSE, out |-> Undef] : x \in UnrecognizedShapes}

\* const text = extractTextFromResponse(resp)
ExtractText ==
  /\ probe.fn = "extract" /\ ~probe.done
  /\ probe' = [probe EXCEPT !.done = TRUE,
                            !.out = extractTextFromResponse(probe.arg)]
  /\ UNCHANGED <<sessions, heap, req, calls, order>>

NormalizerNext == ExtractText

NormalizerSpec == NormalizerInit /\ [][NormalizerNext]_vars

\* all part texts of a response, item after item and part after part
RECURSIVE InSourceOrder(_)
InSourceOrder(ts) ==
  IF ts = <<>> THEN <<>> ELSE ts[1] \o InSourceOrder(Tail(ts))

\* C16: the normalized text is the texts of all parts joined in source
\* order (items in array order, parts in content order), every part once
\* and none dropped; three items holding "a", "b", "c" give "abc".
C16_TextInSourceOrder ==
  (probe.fn = "extract" /\ probe.done /\ probe.shape = "texts") =>
    /\ probe.out.ok
    /\ probe.out.s = CatAll(InSourceOrder(probe.texts))
    /\ probe.texts = << <<Lit("a")>>, <<Lit("b")>>, <<Lit("c")>> >> =>
         probe.out.s = <<[c |-> "a", n |-> 1], [c |-> "b", n |-> 1],
                         [c |-> "c", n |-> 1]>>

\* the three-item response of "a", "b", "c" was normalized to "abc"
C16_Witness ==
  /\ probe.fn = "extract" /\ probe.done
  /\ probe.arg = Resp(<<Item(<<TextPart(Lit("a"))>>), Item(<<TextPart(Lit("b"))>>),
                        Item(<<TextPart(Lit("c"))>>)>>)
  /\ probe.out = Ok(<<[c |-> "a", n |-> 1], [c |-> "b", n |-> 1],
                      [c |-> "c", n |-> 1]>>)

\* C17: for a result with none of the recognized text-bearing shapes the
\* normalizer does not raise and returns the empty string.
C17_UnrecognizedGivesEmpty ==
  (probe.fn = "extract" /\ probe.done /\ probe.shape = "unrecognized") =>
    probe.out = Ok(<<>>)

\* ------------------------------------------------------------------------
\* Generated session ids
\* ------------------------------------------------------------------------

\* sessionId fields that are absent or empty
NoSessionId == {sid \in SessionIdInputs : sid = Undef \/ sid = Str(<<>>)}

\* C18: a request without a sessionId that reaches getOrCreateSession gets
\* a session object that did not exist before, under an id that was not in
\* the store; it never receives an existing session.
C18_GeneratedIdIsFresh ==
  [][\A r \in Reqs :
       (/\ \E sid \in NoSessionId, g \in GeneratedIds :
             \/ \E m \in MessageInputs : ChatRequest(r, sid, m, g)
             \/ \E b \in UploadInputs : UploadRequest(r, sid, b, g)
        /\ req'[r].pc # "done")
       => /\ req'[r].session = Len(heap) + 1
          /\ heap'[req'[r].session].id \notin DOMAIN sessions
          /\ heap'[req'[r].session].messages
               = <<heap'[req'[r].session].messages[1]>>]_vars

\* ------------------------------------------------------------------------
\* The order of the backend calls of one invocation
\* ------------------------------------------------------------------------

\* C19: the backend calls of one generateWithFallback invocation form a
\* linear sequence: at most two primary calls, then at most one secondary
\* call, never a primary call after the secondary one; a call is followed
\* by another only if it failed, a failed primary attempt is followed at
\* once by the next call whether it yielded empty text or raised a fault,
\* and the secondary call is made if and only if both primary attempts
\* failed.
C19_LinearCallSequence ==
  \A r \in Reqs :
    LET cs == calls[r]
    IN /\ Len(cs) <= 3
       /\ \A i \in 1..Len(cs) :
            /\ cs[i].tier = IF i <= 2 THEN "primary" ELSE "secondary"
            /\ i < Len(cs) => Failed(cs[i])
            /\ (i <= 2 /\ Failed(cs[i])) => Len(cs) > i
       /\ (\E i \in 1..Len(cs) : cs[i].tier = "secondary")
            <=> (Len(cs) >= 2 /\ Failed(cs[1]) /\ Failed(cs[2]))

\* an invocation whose first attempt yielded empty text and whose second
\* attempt raised a fault, and which then issued the secondary call
C19_Witness ==
  \E r \in Reqs :
    /\ Len(calls[r]) = 3
    /\ calls[r][1].outcome.kind = "empty"
    /\ calls[r][2].outcome.kind = "fault"
    /\ calls[r][3].tier = "secondary"
    /\ req[r].pc = "secondary"

\* ------------------------------------------------------------------------
\* The secondary request against the primary request of one invocation
\* ------------------------------------------------------------------------

\* C20 as stated: the secondary request of an invocation carries the same
\* system instruction and exactly the same sequence of turns as the request
\* sent on its primary attempts, also when another request appends to the
\* session meanwhile.
C20_SecondaryEqualsPrimary ==
  \A r \in Reqs :
    PrimaryExhausted(r) =>
      /\ calls[r][2].input = calls[r][1].input
      /\ calls[r][3].input = calls[r][1].input

\* C20 amended: both primary attempts send the same request; the secondary
\* request opens with the same system instruction and continues with the
\* session's turns as they are stored when the secondary call is issued, so
\* the primary request is a prefix of it, and the two are equal when no
\* turn was appended to the session since the invocation started.
C20_SecondaryExtendsPrimary ==
  \A r \in Reqs :
    PrimaryExhausted(r) =>
      /\ calls[r][2].input = calls[r][1].input
      /\ calls[r][1].input[1] = SystemTurn
      /\ calls[r][3].input[1] = SystemTurn
      /\ Tail(calls[r][3].input) = calls[r][3].stored
      /\ IsPrefix(calls[r][1].input, calls[r][3].input)
      /\ calls[r][3].stored = calls[r][1].stored =>
           calls[r][3].input = calls[r][1].input

\* another request appended its user turn after both primary attempts were
\* issued: the secondary request has one turn more than the primary one
C20_Witness ==
  \E r \in Reqs :
    /\ PrimaryExhausted(r)
    /\ calls[r][2].stored = calls[r][1].stored
    /\ Len(calls[r][3].input) = Len(calls[r][1].input) + 1
    /\ calls[r][3].input[Len(calls[r][3].input)].role = "user"

\* ------------------------------------------------------------------------
\* Termination of generateWithFallback
\* ------------------------------------------------------------------------

\* the call that request r awaits settles: it resolves, or it rejects (a
\* fault of the backend, or the client's timeout of 10 minutes)
CallSettles(r) ==
  \/ \E resp \in PrimaryResponses : PrimaryResolves(r, resp)
  \/ \E msg \in FaultMessages : PrimaryRejects(r, msg)
  \/ \E c \in Completions : SecondaryResolves(r, c)
  \/ \E msg \in FaultMessages : SecondaryRejects(r, msg)

\* the server when no backend call stays pending forever
LiveSpec == Spec /\ \A r \in Reqs : WF_vars(CallSettles(r))

\* generateWithFallback is running for request r / has returned or thrown
Generating(r) == req[r].pc \in {"primary", "secondary"}
Settled(r) == req[r].pc \in {"returned", "thrown", "done"}

\* C21: when every backend call settles, every generateWithFallback
\* invocation ends, by returning or by throwing, and it never issues more
\* than three backend calls; a rejected (timed-out) call leaves the
\* invocation running on the next attempt or tier, or ends it.
C21_GenerateTerminates ==
  \A r \in Reqs :
    /\ [](Len(calls[r]) <= 3)
    /\ Generating(r) ~> Settled(r)

\* an invocation that ended by throwing after three rejected calls
C21_Witness ==
  \E r \in Reqs :
    /\ req[r].pc = "thrown"
    /\ Len(calls[r]) = 3
    /\ \A i \in 1..3 : calls[r][i].outcome.kind = "fault"

\* C22: a result that exposes its text only in a top-level convenience
\* field, without an array of output items, is normalized to that text and
\* not to the empty string.
C22_ConvenienceOnlyGivesText ==
  (probe.fn = "extract" /\ probe.done /\ probe.shape = "convenience") =>
    /\ probe.out.ok
    /\ probe.out.s = probe.texts[1][1]

\* ------------------------------------------------------------------------
\* The arithmetic of the truncated upload message
\* ------------------------------------------------------------------------

\* the position of the template chunk or number token named c in a message
PlaceOf(out, c) == CHOOSE i \in 1..Len(out) : out[i].c = c

\* the segments embedded between the markers, and the reported count
EmbeddedHead(out) ==
  SubSeq(out, PlaceOf(out, "--- BEGIN TRUNCATED CONTENT (HEAD) ---") + 1,
         PlaceOf(out, "--- MIDDLE OMITTED ---") - 1)
EmbeddedTail(out) ==
  SubSeq(out, PlaceOf(out, "--- MIDDLE OMITTED ---") + 1,
         PlaceOf(out, "--- END TRUNCATED CONTENT ---") - 1)
ReportedOmitted(out) == out[PlaceOf(out, "omitted")].v

\* head, tail and count of a truncated message for the content s: the head
\* is the first 100000 characters, the tail the last 100000, the two do not
\* overlap, and the count is length - 200000, the number of characters of
\* the middle that lies in neither
TruncationExact(out, s) ==
  LET head == EmbeddedHead(out)
      tail == EmbeddedTail(out)
      omitted == ReportedOmitted(out)
      middle == Take(Drop(s, 100000), StrLen(s) - 200000)
  IN /\ IsTruncated(out)
     /\ StrLen(head) = 100000 /\ head = Take(s, 100000)
     /\ StrLen(tail) = 100000 /\ tail = Drop(s, StrLen(s) - 100000)
     /\ StrLen(head) + StrLen(tail) <= StrLen(s)
     /\ omitted = StrLen(s) - 200000
     /\ StrLen(head) + StrLen(tail) + omitted = StrLen(s)
     /\ StrLen(middle) = omitted
     /\ CatAll(<<head, middle, tail>>) = s

\* C23 as stated: for every uploaded text longer than 200000 characters the
\* message embeds exactly the first and the last 100000 characters, without
\* overlap, and reports length - 200000 omitted characters.
C23_TruncationOfLongText ==
  (probe.fn = "triage" /\ probe.done) =>
    LET c == probe.arg.fileContent
    IN (c.t = "string" /\ StrLen(c.s) > 200000) =>
         TruncationExact(probe.out, c.s)

\* C23 amended: the same for every uploaded text longer than 200000
\* characters that holds at least one non-whitespace character; a longer
\* text of whitespace only is not embedded at all.
C23_TruncationOfLongNonBlankText ==
  (probe.fn = "triage" /\ probe.done) =>
    LET c == probe.arg.fileContent
    IN /\ (HasText(c) /\ StrLen(c.s) > 200000) =>
            TruncationExact(probe.out, c.s)
       /\ (c.t = "string" /\ ~HasText(c) /\ StrLen(c.s) > 200000) =>
            IsDescribeOnly(probe.out)

\* a text of 100000 "x", 5 "m" and 100000 "y" was triaged: the message
\* reports 5 omitted characters and embeds no "m"
C23_Witness ==
  /\ probe.fn = "triage" /\ probe.done
  /\ probe.arg.fileContent.t = "string"
  /\ StrLen(probe.arg.fileContent.s) = 200005
  /\ IsTruncated(probe.out)
  /\ ReportedOmitted(probe.out) = 5
  /\ \A i \in 1..Len(probe.out) : probe.out[i].c # "m"

\* ------------------------------------------------------------------------
\* What generateWithFallback leaves alone, and what a failed request leaves
\* behind
\* ------------------------------------------------------------------------

\* C24: a step taken inside generateWithFallback (a call settles and the
\* invocation retries, moves to the secondary tier, returns or throws)
\* changes neither a session's messages nor the session store; a step that
\* appends an assistant turn to a session is the step of a handler on that
\* session whose generateWithFallback had returned.
C24_GenerateLeavesStoreAlone ==
  [][/\ \A r \in Reqs :
          (Generating(r) /\ req'[r] # req[r]) =>
            (heap' = heap /\ sessions' = sessions)
     /\ \A a \in 1..Len(heap) :
          LET m == heap'[a].messages
          IN (m # heap[a].messages /\ m[Len(m)].role = "assistant") =>
               \E r \in Reqs : /\ req[r].pc = "returned"
                               /\ req[r].session = a
                               /\ req'[r].pc = "done"
                               /\ m[Len(m)].content = req[r].result.text]_vars

\* generateWithFallback has returned after three backend calls and the
\* session still holds only the request's user turn
C24_Witness ==
  \E r \in Reqs :
    /\ req[r].pc = "returned"
    /\ Len(calls[r]) = 3
    /\ Len(heap[req[r].session].messages) = 1
    /\ heap[req[r].session].messages[1].role = "user"

\* how many turns of the history m have the given role
CountRole(m, role) == Cardinality({i \in 1..Len(m) : m[i].role = role})

\* the request carries two consecutive user turns
HasAdjacentUserTurns(input) ==
  \E i \in 1..(Len(input) - 1) :
    input[i].role = "user" /\ input[i + 1].role = "user"

\* C25: the step in which a handler answers 500 after generateWithFallback
\* threw leaves every history as it is: the request's user turn is not
\* taken back and no assistant turn is appended for it, so the session then
\* holds more user turns than assistant turns; and a request that arrives
\* on a session on which a request has failed that way sends the backend a
\* history with two consecutive user turns.
C25_FailedRequestLeavesUserTurn ==
  [][\A r \in Reqs :
       /\ (req[r].pc = "thrown" /\ req'[r].pc = "done") =>
            /\ req'[r].status = 500
            /\ heap' = heap
            /\ CountRole(heap'[req[r].session].messages, "user")
                 > CountRole(heap'[req[r].session].messages, "assistant")
       /\ (/\ req[r].pc = "idle" /\ req'[r].pc = "primary"
           /\ \E q \in Reqs : /\ req[q].pc = "done" /\ req[q].status = 500
                              /\ req[q].session = req'[r].session) =>
            HasAdjacentUserTurns(calls'[r][1].input)]_vars

\* request 1 failed with 500 and request 2 then arrived on its session: the
\* first backend call of request 2 carries user, user
C25_Witness ==
  /\ order = <<1, 2>>
  /\ req[1].pc = "done" /\ req[1].status = 500
  /\ req[2].pc = "primary" /\ req[2].session = req[1].session
  /\ Len(calls[2]) = 1
  /\ calls[2][1].input =
       <<SystemTurn, calls[2][1].input[2], calls[2][1].input[3]>>
  /\ calls[2][1].input[2].role = "user"
  /\ calls[2][1].input[3].role = "user"

\* ------------------------------------------------------------------------
\* Histories under concurrency
\* ------------------------------------------------------------------------

\* C26: the turns carried by any backend call of a request (its input
\* without the system instruction) are a prefix of the stored history of
\* the request's session, in the state in which the call is issued and in
\* every later state of the invocation, whatever other requests do to the
\* session meanwhile.
C26_SentTurnsArePrefixOfHistory ==
  \A r \in Reqs : \A i \in 1..Len(calls[r]) :
    /\ calls[r][i].input[1] = SystemTurn
    /\ IsPrefix(Tail(calls[r][i].input), heap[req[r].session].messages)

\* the first call of a request is still pending while another request on
\* the session has arrived and been answered: the call carries one turn,
\* the history holds three
C26_Witness ==
  \E r \in Reqs :
    /\ req[r].pc = "primary"
    /\ Len(calls[r]) = 1
    /\ Len(calls[r][1].input) = 2
    /\ Len(heap[req[r].session].messages) = 3
    /\ heap[req[r].session].messages[3].role = "assistant"

\* C27: in every reachable state every prefix of every session's stored
\* history holds at least as many user turns as assistant turns, so a
\* non-empty history starts with a user turn, and no stored turn has the
\* role system.
C27_UsersLeadAssistants ==
  \A a \in 1..Len(heap) :
    LET m == heap[a].messages
    IN /\ \A k \in 1..Len(m) :
            CountRole(SubSeq(m, 1, k), "user")
              >= CountRole(SubSeq(m, 1, k), "assistant")
       /\ \A k \in 1..Len(m) : m[k].role \in {"user", "assistant"}
       /\ m # <<>> => m[1].role = "user"

\* a chat and an upload overlapped on one session: the history is user,
\* user, assistant while the other request is still awaiting its backend
C27_Witness ==
  \E a \in 1..Len(heap) :
    /\ Len(heap[a].messages) = 3
    /\ heap[a].messages[1].role = "user"
    /\ heap[a].messages[2].role = "user"
    /\ heap[a].messages[3].role = "assistant"
    /\ \E r, q \in Reqs :
         /\ req[r].kind = "chat" /\ req[q].kind = "upload"
         /\ req[r].session = a /\ req[q].session = a
         /\ Generating(r) \/ Generating(q)

====
